---- MODULE Spec2Model ----
(***************************************************************************)
(* Model of the request pipeline of gateway/gateway.js: the HTTP request   *)
(* handler, its three collaborator continuations (bans.checkBan,           *)
(* authentication.authenticate, rateLimiting.rateLimit), the proxy event   *)
(* handlers (proxyReq, proxyRes, error) and getEndpoint.                   *)
(*                                                                         *)
(* URLs are sequences of tokens.  A pattern is a regular expression made   *)
(* of an optional start anchor, a literal, and an optional trailing group  *)
(* capturing the rest of the URL, given as [anchored, lit, group]; a       *)
(* rewrite target is a sequence of tokens in which "$1" stands for the     *)
(* captured group.                                                         *)
(***************************************************************************)
EXTENDS Integers, Sequences, FiniteSets, TLC

\* ---------------------------------------------------------------- bounds
NumReqs == 2
MaxEndpoints == 2
MaxUrlLen == 2

Reqs == 1..NumReqs

\* ------------------------------------------------- values of the model
Undefined == "undefined"
Chars == {"a", "b"}
IPs == {"10.0.0.1"}
NoIps == {"", Undefined}
Errs == {"Error"}
Tokens == {"tok1"}

\* statuses the collaborators and the upstream answer with
BanDeniedStatus == 403
AuthFailedStatus == 401
RateLimitedStatus == 429
UpstreamStatus == 200

RECURSIVE SeqsUpTo(_, _)
SeqsUpTo(S, n) ==
  IF n = 0 THEN {<<>>}
  ELSE LET shorter == SeqsUpTo(S, n - 1)
       IN  shorter \cup {Append(s, c) : s \in {t \in shorter : Len(t) = n - 1}, c \in S}

Urls == SeqsUpTo(Chars, MaxUrlLen) \ {<<>>}

\* ------------------------------------------------------ endpoint table
Pattern(anchored, lit, group) == [anchored |-> anchored, lit |-> lit, group |-> group]
Endpoint(name, pattern, target) == [name |-> name, pattern |-> pattern, target |-> target]

\* the routes the pipeline specification runs with
DefaultConfig ==
  [endpoints |-> << Endpoint("users", Pattern(TRUE, <<"a", "b">>, TRUE), <<"U", "$1">>),
                    Endpoint("api",   Pattern(TRUE, <<"a">>, FALSE),     <<"A">>) >>]

\* the URLs requests arrive with, one for each way of matching DefaultConfig:
\* both patterns, the second pattern only, no pattern
RequestUrls == {<<"a", "b">>, <<"a">>, <<"b">>}

EndpointPool ==
  { Endpoint("e1", Pattern(TRUE,  <<"a">>, FALSE),      <<"A">>),
    Endpoint("e2", Pattern(TRUE,  <<"a", "b">>, TRUE),  <<"U", "$1">>),
    Endpoint("e3", Pattern(FALSE, <<"b">>, FALSE),      <<"B">>),
    Endpoint("e4", Pattern(TRUE,  <<"b">>, TRUE),       <<"$1", "B">>),
    Endpoint("e5", Pattern(TRUE,  <<"a">>, TRUE),       <<"U", "$1">>) }

Configs == {[endpoints |-> t] : t \in SeqsUpTo(EndpointPool, MaxEndpoints)}

\* ------------------------------------------------------ pure functions
\* the positions a match of the pattern may start at
Starts(p, url) == IF p.anchored THEN {1} ELSE 1..(Len(url) + 1)

\* the literal of the pattern occurs in url at position i
MatchAt(p, url, i) ==
  /\ i + Len(p.lit) - 1 <= Len(url)
  /\ SubSeq(url, i, i + Len(p.lit) - 1) = p.lit

\* RegExp.prototype.test
test(p, url) == \E i \in Starts(p, url) : MatchAt(p, url, i)

\* the leftmost match
FirstMatch(p, url) ==
  CHOOSE i \in Starts(p, url) :
    /\ MatchAt(p, url, i)
    /\ \A j \in Starts(p, url) : MatchAt(p, url, j) => i <= j

RECURSIVE Expand(_, _, _)
\* the rewrite template with "$1" replaced by the captured group; without a
\* group in the pattern "$1" stays as it is
Expand(target, p, capture) ==
  IF target = <<>> THEN <<>>
  ELSE (IF Head(target) = "$1" /\ p.group THEN capture ELSE <<Head(target)>>)
       \o Expand(Tail(target), p, capture)

\* a rewrite that takes the expanded template for the whole target
replaceWhole(url, p, target) ==
  IF ~test(p, url) THEN url
  ELSE LET i       == FirstMatch(p, url)
           capture == SubSeq(url, i + Len(p.lit), Len(url))
       IN  Expand(target, p, capture)

\* String.prototype.replace(pattern, target)
replace(url, p, target) ==
  IF ~test(p, url) THEN url
  ELSE LET i        == FirstMatch(p, url)
           litEnd   == i + Len(p.lit) - 1
           matchEnd == IF p.group THEN Len(url) ELSE litEnd
           capture  == SubSeq(url, litEnd + 1, Len(url))
       IN  SubSeq(url, 1, i - 1) \o Expand(target, p, capture)
             \o SubSeq(url, matchEnd + 1, Len(url))

RECURSIVE scanEndpoints(_, _, _)
\* the loop of getEndpoint from index i on; 0 is "no endpoint" (undefined)
scanEndpoints(endpoints, url, i) ==
  IF i > Len(endpoints) THEN 0
  ELSE IF test(endpoints[i].pattern, url) THEN i
  ELSE scanEndpoints(endpoints, url, i + 1)

RECURSIVE scanEndpointsLast(_, _, _)
scanEndpointsLast(endpoints, url, i) ==
  IF i < 1 THEN 0
  ELSE IF test(endpoints[i].pattern, url) THEN i
  ELSE scanEndpointsLast(endpoints, url, i - 1)

\* a resolver in which the last matching entry wins
getEndpointLastMatch(endpoints, url) == scanEndpointsLast(endpoints, url, Len(endpoints))

\* a resolver that falls back to the first entry when nothing matches
getEndpointDefault(endpoints, url) ==
  IF scanEndpoints(endpoints, url, 1) = 0 /\ Len(endpoints) > 0 THEN 1
  ELSE scanEndpoints(endpoints, url, 1)

getEndpoint(endpoints, url) == scanEndpoints(endpoints, url, 1)

\* ---------------------------------------------------------------- state
VARIABLES
  config,   \* utils.getConfig(): the endpoint table
  pc,       \* per request: the suspension point of its pipeline
  req,      \* per request: the fields the pipeline puts on req
  res,      \* per request: the client response
  loc,      \* per request: the closure variables endpoint and target
  calls,    \* per request: how often each stage was invoked
  out,      \* per request: the outcome each collaborator delivered
  up,       \* per request: the request proxy.web sent upstream
  log,      \* per request: utils.logger.error / utils.logRequest records
  sock,     \* per request: the client connection
  clock,    \* new Date()
  nextId,   \* uuid.v4()
  probe     \* getEndpoint applied on its own: [url, endpoint]

vars == <<config, pc, req, res, loc, calls, out, up, log, sock, clock, nextId, probe>>

NewReq == [url |-> <<>>, startTime |-> 0, userIP |-> Undefined, requestId |-> 0,
           tokenId |-> Undefined, endpoint |-> Undefined, proxyUrl |-> <<>>]
NewRes == [status |-> 0, message |-> "", xRequestId |-> 0, writer |-> "none", ended |-> 0]
NewLoc == [endpoint |-> 0, target |-> <<>>]
NewCalls == [checkBan |-> 0, getEndpoint |-> 0, authenticate |-> 0, rateLimit |-> 0,
             web |-> 0, abort |-> 0]
NewOut == [ban |-> "none", auth |-> "none", authStatus |-> 0, token |-> Undefined,
           rlToken |-> Undefined, rl |-> "none", up |-> "none"]
NewUp == [target |-> <<>>, xRequestId |-> 0]

InitPipeline ==
  /\ pc = [r \in Reqs |-> "idle"]
  /\ req = [r \in Reqs |-> NewReq]
  /\ res = [r \in Reqs |-> NewRes]
  /\ loc = [r \in Reqs |-> NewLoc]
  /\ calls = [r \in Reqs |-> NewCalls]
  /\ out = [r \in Reqs |-> NewOut]
  /\ up = [r \in Reqs |-> NewUp]
  /\ log = [r \in Reqs |-> <<>>]
  /\ sock = [r \in Reqs |-> "open"]
  /\ clock = 1
  /\ nextId = 1
  /\ probe = [url |-> <<>>, endpoint |-> 0]

Init ==
  /\ config = DefaultConfig
  /\ InitPipeline

\* ------------------------------------------------------------- helpers
\* JavaScript truthiness of the values the model passes around
truthy(v) == v \notin {"", Undefined}

\* utils.abort(req, res, status, body): write status and body, end the response
abort(r, status, message) ==
  [res[r] EXCEPT !.status = status, !.message = message, !.writer = "gateway",
                 !.ended = @ + 1]

\* a collaborator answering the client itself
respond(r, who, status, message) ==
  [res[r] EXCEPT !.status = status, !.message = message, !.writer = who,
                 !.ended = @ + 1]

\* an identity check that lets every request through
noUserIPIgnored(ip) == FALSE

\* if (!req.userIP)
noUserIP(ip) == ~truthy(ip)

\* a continuation that passes the token on without putting it on req
bindTokenSkipped(r, tokenId) == req[r]

\* req.tokenId = tokenId
bindToken(r, tokenId) == [req[r] EXCEPT !.tokenId = tokenId]

\* the proxyReq handler without the header on the client response
proxyReqResNoHeader(r) == res[r]

\* the proxyReq handler: X-Request-ID on the client response
proxyReqRes(r) == [res[r] EXCEPT !.xRequestId = req[r].requestId]

\* a proxyReq handler that takes the id from the generator shared by all
\* requests, the one generated last
proxyReqUpShared(r) == [target |-> loc[r].target, xRequestId |-> nextId - 1]

\* the proxyReq handler: X-Request-ID on the upstream request
proxyReqUp(r) == [target |-> loc[r].target, xRequestId |-> req[r].requestId]

\* an error path that logs and leaves the response unwritten
errorReqLogOnly(r, err) ==
  /\ log' = [log EXCEPT ![r] = Append(@, [kind |-> "error", detail |-> err])]
  /\ res' = res

\* an error path that answers with the error itself
errorReqDetail(r, err) ==
  /\ log' = [log EXCEPT ![r] = Append(@, [kind |-> "error", detail |-> err])]
  /\ res' = [res EXCEPT ![r] = abort(r, 500, err)]

\* errorReq(req, res, err): log the error, then abort with the generic 500
errorReq(r, err) ==
  /\ log' = [log EXCEPT ![r] = Append(@, [kind |-> "error", detail |-> err])]
  /\ res' = [res EXCEPT ![r] = abort(r, 500, "Internal Server Error")]

\* --------------------------------------------------------------- actions
\* a handler that assigns the correlation id on accept, before the ban check
HandlerIdOnAccept(r, url, ip) ==
  /\ pc[r] = "idle"
  /\ \A q \in Reqs : q < r => pc[q] # "idle"
  /\ clock' = clock + 1
  /\ req' = [req EXCEPT ![r].url = url, ![r].startTime = clock, ![r].userIP = ip,
                        ![r].requestId = nextId]
  /\ nextId' = nextId + 1
  /\ IF noUserIP(ip)
     THEN /\ res' = [res EXCEPT ![r] = abort(r, 500, "Internal Server Error")]
          /\ calls' = [calls EXCEPT ![r].abort = @ + 1]
          /\ pc' = [pc EXCEPT ![r] = "done"]
     ELSE /\ calls' = [calls EXCEPT ![r].checkBan = @ + 1]
          /\ pc' = [pc EXCEPT ![r] = "checkBan"]
          /\ UNCHANGED res
  /\ UNCHANGED <<config, loc, out, up, log, sock, probe>>

\* a handler that aborts on a missing client IP and goes on to the ban check
HandlerNoReturn(r, url, ip) ==
  /\ pc[r] = "idle"
  /\ \A q \in Reqs : q < r => pc[q] # "idle"
  /\ clock' = clock + 1
  /\ req' = [req EXCEPT ![r].url = url, ![r].startTime = clock, ![r].userIP = ip]
  /\ IF noUserIP(ip)
     THEN /\ res' = [res EXCEPT ![r] = abort(r, 500, "Internal Server Error")]
          /\ calls' = [calls EXCEPT ![r].abort = @ + 1, ![r].checkBan = @ + 1]
     ELSE /\ calls' = [calls EXCEPT ![r].checkBan = @ + 1]
          /\ UNCHANGED res
  /\ pc' = [pc EXCEPT ![r] = "checkBan"]
  /\ UNCHANGED <<config, loc, out, up, log, sock, nextId, probe>>

\* the request handler up to the call of bans.checkBan
Handler(r, url, ip) ==
  /\ pc[r] = "idle"
  /\ \A q \in Reqs : q < r => pc[q] # "idle"
  /\ clock' = clock + 1
  /\ req' = [req EXCEPT ![r].url = url, ![r].startTime = clock, ![r].userIP = ip]
  /\ IF noUserIP(ip)
     THEN /\ res' = [res EXCEPT ![r] = abort(r, 500, "Internal Server Error")]
          /\ calls' = [calls EXCEPT ![r].abort = @ + 1]
          /\ pc' = [pc EXCEPT ![r] = "done"]
     ELSE /\ calls' = [calls EXCEPT ![r].checkBan = @ + 1]
          /\ pc' = [pc EXCEPT ![r] = "checkBan"]
          /\ UNCHANGED res
  /\ UNCHANGED <<config, loc, out, up, log, sock, nextId, probe>>

\* the continuation of bans.checkBan up to the call of authenticate
checkBanCallback(r, err) ==
  /\ pc[r] = "checkBan"
  /\ IF truthy(err)
     THEN /\ out' = [out EXCEPT ![r].ban = "error"]
          /\ errorReq(r, err)
          /\ calls' = [calls EXCEPT ![r].abort = @ + 1]
          /\ pc' = [pc EXCEPT ![r] = "done"]
          /\ UNCHANGED <<req, loc, nextId>>
     ELSE LET endpoint == getEndpoint(config.endpoints, req[r].url)
          IN  /\ out' = [out EXCEPT ![r].ban = "allowed"]
              /\ req' = [req EXCEPT ![r].requestId = nextId]
              /\ nextId' = nextId + 1
              /\ IF endpoint = 0
                 THEN /\ res' = [res EXCEPT ![r] = abort(r, 404, "Route not found")]
                      /\ calls' = [calls EXCEPT ![r].getEndpoint = @ + 1,
                                                ![r].abort = @ + 1]
                      /\ pc' = [pc EXCEPT ![r] = "done"]
                      /\ UNCHANGED <<loc, log>>
                 ELSE /\ loc' = [loc EXCEPT ![r] =
                            [endpoint |-> endpoint,
                             target |-> replace(req[r].url,
                                                config.endpoints[endpoint].pattern,
                                                config.endpoints[endpoint].target)]]
                      /\ calls' = [calls EXCEPT ![r].getEndpoint = @ + 1,
                                                ![r].authenticate = @ + 1]
                      /\ pc' = [pc EXCEPT ![r] = "authenticate"]
                      /\ UNCHANGED <<res, log>>
  /\ UNCHANGED <<config, up, sock, clock, probe>>

\* bans.checkBan denies: it answers the client and drops the continuation
checkBanDenied(r) ==
  /\ pc[r] = "checkBan"
  /\ out' = [out EXCEPT ![r].ban = "denied"]
  /\ res' = [res EXCEPT ![r] = respond(r, "bans", BanDeniedStatus, "Banned")]
  /\ pc' = [pc EXCEPT ![r] = "done"]
  /\ UNCHANGED <<config, req, loc, calls, up, log, sock, clock, nextId, probe>>

\* the continuation of authentication.authenticate up to the call of rateLimit;
\* an error the authenticator passes declares the status AuthFailedStatus;
\* out.token is the identity the authenticator yields, out.rlToken the one
\* handed to rateLimit
authenticateCallback(r, err, tokenId) ==
  /\ pc[r] = "authenticate"
  /\ IF truthy(err)
     THEN /\ out' = [out EXCEPT ![r].auth = "error", ![r].authStatus = AuthFailedStatus]
          /\ errorReq(r, err)
          /\ calls' = [calls EXCEPT ![r].abort = @ + 1]
          /\ pc' = [pc EXCEPT ![r] = "done"]
          /\ UNCHANGED req
     ELSE /\ out' = [out EXCEPT ![r].auth = "ok", ![r].token = tokenId,
                                 ![r].rlToken = tokenId]
          /\ req' = [req EXCEPT ![r] = bindToken(r, tokenId)]
          /\ calls' = [calls EXCEPT ![r].rateLimit = @ + 1]
          /\ pc' = [pc EXCEPT ![r] = "rateLimit"]
          /\ UNCHANGED <<res, log>>
  /\ UNCHANGED <<config, loc, up, sock, clock, nextId, probe>>

\* authentication.authenticate answers the client itself with its failure status
authenticateDenied(r) ==
  /\ pc[r] = "authenticate"
  /\ out' = [out EXCEPT ![r].auth = "denied", ![r].authStatus = AuthFailedStatus]
  /\ res' = [res EXCEPT ![r] = respond(r, "authentication", AuthFailedStatus, "Unauthorized")]
  /\ pc' = [pc EXCEPT ![r] = "done"]
  /\ UNCHANGED <<config, req, loc, calls, up, log, sock, clock, nextId, probe>>

\* a continuation that forwards without putting the endpoint name on req
rateLimitCallbackNoName(r, arg) ==
  /\ pc[r] = "rateLimit"
  /\ out' = [out EXCEPT ![r].rl = IF truthy(arg) THEN "error" ELSE "admit"]
  /\ req' = [req EXCEPT ![r].proxyUrl = loc[r].target]
  /\ calls' = [calls EXCEPT ![r].web = @ + 1]
  /\ up' = [up EXCEPT ![r] = proxyReqUp(r)]
  /\ res' = [res EXCEPT ![r] = proxyReqRes(r)]
  /\ pc' = [pc EXCEPT ![r] = "proxy"]
  /\ UNCHANGED <<config, loc, log, sock, clock, nextId, probe>>

\* the continuation of rateLimiting.rateLimit, whatever the limiter passes to
\* it, with proxy.web and the proxyReq handler proxy.web fires
rateLimitCallback(r, arg) ==
  /\ pc[r] = "rateLimit"
  /\ out' = [out EXCEPT ![r].rl = IF truthy(arg) THEN "error" ELSE "admit"]
  /\ req' = [req EXCEPT ![r].endpoint = config.endpoints[loc[r].endpoint].name,
                        ![r].proxyUrl = loc[r].target]
  /\ calls' = [calls EXCEPT ![r].web = @ + 1]
  /\ up' = [up EXCEPT ![r] = proxyReqUp(r)]
  /\ res' = [res EXCEPT ![r] = proxyReqRes(r)]
  /\ pc' = [pc EXCEPT ![r] = "proxy"]
  /\ UNCHANGED <<config, loc, log, sock, clock, nextId, probe>>

\* rateLimiting.rateLimit rejects: it answers the client and drops the continuation
rateLimitRejected(r) ==
  /\ pc[r] = "rateLimit"
  /\ out' = [out EXCEPT ![r].rl = "reject"]
  /\ res' = [res EXCEPT ![r] = respond(r, "rateLimiting", RateLimitedStatus, "Too Many Requests")]
  /\ pc' = [pc EXCEPT ![r] = "done"]
  /\ UNCHANGED <<config, req, loc, calls, up, log, sock, clock, nextId, probe>>

\* the upstream answers: the proxy relays the answer, the proxyRes handler logs
proxyRes(r) ==
  /\ pc[r] = "proxy"
  /\ out' = [out EXCEPT ![r].up = "response"]
  /\ log' = [log EXCEPT ![r] = Append(@, [kind |-> "request", detail |-> req[r].endpoint])]
  /\ res' = [res EXCEPT ![r] = respond(r, "upstream", UpstreamStatus, "upstream body")]
  /\ pc' = [pc EXCEPT ![r] = "done"]
  /\ UNCHANGED <<config, req, loc, calls, up, sock, clock, nextId, probe>>

\* the upstream call fails: the error handler of the proxy logs, nothing else
proxyError(r, err) ==
  /\ pc[r] = "proxy"
  /\ out' = [out EXCEPT ![r].up = "error"]
  /\ log' = [log EXCEPT ![r] = Append(@, [kind |-> "error", detail |-> err])]
  /\ pc' = [pc EXCEPT ![r] = "upstreamError"]
  /\ UNCHANGED <<config, req, res, loc, calls, up, sock, clock, nextId, probe>>

\* server.setTimeout: an idle connection is destroyed
socketTimeout(r) ==
  /\ pc[r] \in {"checkBan", "authenticate", "rateLimit", "proxy", "upstreamError"}
  /\ sock[r] = "open"
  /\ sock' = [sock EXCEPT ![r] = "destroyed"]
  /\ UNCHANGED <<config, pc, req, res, loc, calls, out, up, log, clock, nextId, probe>>

Next ==
  \E r \in Reqs :
    \/ \E url \in RequestUrls, ip \in IPs \cup NoIps : Handler(r, url, ip)
    \/ \E err \in Errs \cup {Undefined} : checkBanCallback(r, err)
    \/ checkBanDenied(r)
    \/ \E tokenId \in Tokens : authenticateCallback(r, Undefined, tokenId)
    \/ \E err \in Errs : authenticateCallback(r, err, Undefined)
    \/ authenticateDenied(r)
    \/ \E arg \in Errs \cup {Undefined} : rateLimitCallback(r, arg)
    \/ rateLimitRejected(r)
    \/ proxyRes(r)
    \/ \E err \in Errs : proxyError(r, err)
    \/ socketTimeout(r)

Spec == Init /\ [][Next]_vars

\* every call of a collaborator and every upstream call produces an outcome
Outcome(r) ==
  \/ \E err \in Errs \cup {Undefined} : checkBanCallback(r, err)
  \/ checkBanDenied(r)
  \/ \E tokenId \in Tokens : authenticateCallback(r, Undefined, tokenId)
  \/ \E err \in Errs : authenticateCallback(r, err, Undefined)
  \/ authenticateDenied(r)
  \/ \E arg \in Errs \cup {Undefined} : rateLimitCallback(r, arg)
  \/ rateLimitRejected(r)
  \/ proxyRes(r)
  \/ \E err \in Errs : proxyError(r, err)

SpecLive == Spec /\ \A r \in Reqs : WF_vars(Outcome(r))

\* getEndpoint on its own, over every table and URL within the bounds
InitResolve ==
  /\ config \in Configs
  /\ InitPipeline

Resolve(url) ==
  /\ probe' = [url |-> url, endpoint |-> getEndpoint(config.endpoints, url)]
  /\ UNCHANGED <<config, pc, req, res, loc, calls, out, up, log, sock, clock, nextId>>

NextResolve == \E url \in Urls : Resolve(url)

SpecResolve == InitResolve /\ [][NextResolve]_vars

\* the pipeline of one request at a time, over every table and URL within the
\* bounds
NextRewrite ==
  \/ \E url \in Urls, ip \in IPs \cup NoIps : Handler(1, url, ip)
  \/ \E err \in Errs \cup {Undefined} : checkBanCallback(1, err)
  \/ checkBanDenied(1)
  \/ \E tokenId \in Tokens : authenticateCallback(1, Undefined, tokenId)
  \/ \E err \in Errs : authenticateCallback(1, err, Undefined)
  \/ authenticateDenied(1)
  \/ \E arg \in Errs \cup {Undefined} : rateLimitCallback(1, arg)
  \/ rateLimitRejected(1)
  \/ proxyRes(1)
  \/ \E err \in Errs : proxyError(1, err)
  \/ socketTimeout(1)

SpecRewrite == InitResolve /\ [][NextRewrite]_vars

\* ------------------------------------------------------------ properties
GenericFailure(r) ==
  /\ res[r].status = 500
  /\ res[r].message = "Internal Server Error"
  /\ res[r].writer = "gateway"

\* the indices of the table whose pattern matches url
Matching(url) == {i \in 1..Len(config.endpoints) : test(config.endpoints[i].pattern, url)}

\* C1: a request for which proxy.web was invoked has passed every gate: its
\* client IP was resolved, the ban check called back without error, an
\* endpoint matched its URL, the authenticator called back without error and
\* the rate limiter admitted it.
C1_ForwardedPassedEveryGate ==
  \A r \in Reqs :
    calls[r].web > 0 =>
      /\ truthy(req[r].userIP)
      /\ out[r].ban = "allowed"
      /\ Matching(req[r].url) # {}
      /\ out[r].auth = "ok"
      /\ out[r].rl = "admit"

\* C2: no stage runs twice, and a failure of any stage (ban check, endpoint
\* resolution, authenticate, rate limit, forward) ends the request with one
\* final response and none of the later stages invoked.
C2_FailureAbortsOnce ==
  \A r \in Reqs :
    /\ calls[r].checkBan <= 1 /\ calls[r].getEndpoint <= 1 /\ calls[r].authenticate <= 1
    /\ calls[r].rateLimit <= 1 /\ calls[r].web <= 1
    /\ out[r].ban \in {"error", "denied"} =>
         /\ res[r].ended = 1
         /\ calls[r].getEndpoint = 0 /\ calls[r].authenticate = 0
         /\ calls[r].rateLimit = 0 /\ calls[r].web = 0
    /\ (out[r].ban = "allowed" /\ Matching(req[r].url) = {}) =>
         /\ res[r].ended = 1
         /\ calls[r].authenticate = 0 /\ calls[r].rateLimit = 0 /\ calls[r].web = 0
    /\ out[r].auth \in {"error", "denied"} =>
         /\ res[r].ended = 1
         /\ calls[r].rateLimit = 0 /\ calls[r].web = 0
    /\ out[r].rl \in {"error", "reject"} =>
         /\ res[r].ended = 1
         /\ calls[r].web = 0
    /\ out[r].up = "error" => res[r].ended = 1

\* C3: a request without a client IP gets the generic 500 response, and the
\* ban guard, the authenticator and the rate limiter are never invoked for it.
C3_NoIdentityAborts ==
  \A r \in Reqs :
    (pc[r] # "idle" /\ ~truthy(req[r].userIP)) =>
      /\ GenericFailure(r)
      /\ calls[r].checkBan = 0
      /\ calls[r].authenticate = 0
      /\ calls[r].rateLimit = 0

C3_Witness ==
  \E r \in Reqs : pc[r] = "done" /\ ~truthy(req[r].userIP) /\ res[r].ended = 1

\* C4: a request the ban guard denies carries no correlation id, neither on
\* req nor in an X-Request-ID header, and none of the later stages is invoked
\* for it; a request has a correlation id only once the ban check allowed it.
C4_BannedUntraced ==
  \A r \in Reqs :
    /\ out[r].ban = "denied" =>
         /\ req[r].requestId = 0
         /\ res[r].xRequestId = 0
         /\ up[r].xRequestId = 0
         /\ calls[r].getEndpoint = 0
         /\ calls[r].authenticate = 0
         /\ calls[r].rateLimit = 0
    /\ req[r].requestId # 0 => out[r].ban = "allowed"

C4_Witness ==
  \E r \in Reqs : out[r].ban = "denied" /\ res[r].status = BanDeniedStatus /\ pc[r] = "done"

C6_UpstreamFailureAnswered ==
  \A r \in Reqs : out[r].up = "error" => GenericFailure(r)

\* C7: whatever the rate limiter delivers other than admit, also as a value it
\* passes to its continuation, nothing is forwarded for the request.
C7_RejectNeverForwarded ==
  \A r \in Reqs :
    out[r].rl \in {"reject", "error"} => (calls[r].web = 0 /\ up[r].xRequestId = 0)

\* C8: when no pattern matches the URL of a request that passed the ban check,
\* the answer is 404 "Route not found", and neither the authenticator nor the
\* rate limiter nor proxy.web is invoked for it.
C8_RouteNotFound ==
  \A r \in Reqs :
    (out[r].ban = "allowed" /\ Matching(req[r].url) = {}) =>
      /\ res[r].status = 404
      /\ res[r].message = "Route not found"
      /\ res[r].writer = "gateway"
      /\ calls[r].authenticate = 0
      /\ calls[r].rateLimit = 0
      /\ calls[r].web = 0

C8_Witness ==
  \E r \in Reqs : out[r].ban = "allowed" /\ Matching(req[r].url) = {} /\ pc[r] = "done"

\* C9: getEndpoint yields the first entry of the table whose pattern matches
\* the URL, the same one for the same URL and table, and no entry exactly when
\* no pattern matches.
C9_FirstMatchWins ==
  probe.url # <<>> =>
    /\ probe.endpoint = 0 <=> Matching(probe.url) = {}
    /\ Matching(probe.url) # {} =>
         /\ probe.endpoint \in Matching(probe.url)
         /\ \A j \in Matching(probe.url) : probe.endpoint <= j

C9_Witness ==
  /\ Cardinality(Matching(probe.url)) >= 2
  /\ probe.endpoint = 1
  /\ config.endpoints[1] # config.endpoints[2]

\* C10: for a forwarded request the X-Request-ID on the upstream request and
\* the one on the client response are the same non-empty value, and no other
\* forwarded request carries it.
C10_CorrelationId ==
  \A r \in Reqs :
    calls[r].web > 0 =>
      /\ up[r].xRequestId = res[r].xRequestId
      /\ up[r].xRequestId # 0
      /\ \A q \in Reqs \ {r} : calls[q].web > 0 => up[q].xRequestId # up[r].xRequestId

C10_Witness ==
  \E r, q \in Reqs : r # q /\ calls[r].web > 0 /\ calls[q].web > 0 /\ res[r].xRequestId # 0

\* C11: whenever rateLimit has been invoked for a request, authentication has
\* succeeded for it and req.tokenId already holds the identity the
\* authenticator yielded, which is a resolved one and the one rateLimit was given.
C11_TokenBoundBeforeRateLimit ==
  \A r \in Reqs :
    calls[r].rateLimit > 0 =>
      /\ out[r].auth = "ok"
      /\ truthy(out[r].token)
      /\ req[r].tokenId = out[r].token
      /\ out[r].rlToken = req[r].tokenId

C11_Witness ==
  \E r \in Reqs : pc[r] = "rateLimit" /\ calls[r].rateLimit = 1 /\ req[r].tokenId \in Tokens

RECURSIVE Substituted(_, _, _)
\* template with every "$1" replaced by group, when the pattern has a group
Substituted(template, hasGroup, group) ==
  IF template = <<>> THEN <<>>
  ELSE LET first == IF hasGroup /\ Head(template) = "$1" THEN group ELSE <<Head(template)>>
       IN  first \o Substituted(Tail(template), hasGroup, group)

\* target is url with its leftmost match [i..j] of the pattern of endpoint e
\* replaced by the template of e, what precedes and follows the match kept
Rewritten(url, e, target) ==
  \E i \in 1..(Len(url) + 1), j \in 0..Len(url) :
    LET p      == e.pattern
        litEnd == i + Len(p.lit) - 1
    IN  /\ p.anchored => i = 1
        /\ litEnd <= Len(url)
        /\ SubSeq(url, i, litEnd) = p.lit
        /\ \A k \in 1..(i - 1) :
             ~(~p.anchored /\ k + Len(p.lit) - 1 <= Len(url)
                 /\ SubSeq(url, k, k + Len(p.lit) - 1) = p.lit)
        /\ j = IF p.group THEN Len(url) ELSE litEnd
        /\ target = SubSeq(url, 1, i - 1)
                      \o Substituted(e.target, p.group, SubSeq(url, litEnd + 1, j))
                      \o SubSeq(url, j + 1, Len(url))

\* the first entry of the table that matches url
FirstMatching(url) ==
  config.endpoints[CHOOSE i \in Matching(url) : \A k \in Matching(url) : i <= k]

\* C12: the target a request is forwarded to is its URL with the part the
\* pattern of its endpoint matched replaced by the rewrite template of the
\* endpoint, groups substituted, and the rest of the URL kept as it is; this
\* target alone is the upstream path.
C12_PathRewritten ==
  \A r \in Reqs :
    calls[r].web > 0 =>
      /\ Rewritten(req[r].url, FirstMatching(req[r].url), up[r].target)
      /\ req[r].proxyUrl = up[r].target

\* the case of pattern /api/users/(.*), target http://users-svc/$1 and request
\* /api/users/42?x=1, with "a" for /api/users/, "b" for 42?x=1 and "U" for
\* http://users-svc/
C12_Witness ==
  \E r \in Reqs :
    /\ calls[r].web > 0
    /\ req[r].url = <<"a", "b">>
    /\ config.endpoints[loc[r].endpoint].pattern = Pattern(TRUE, <<"a">>, TRUE)
    /\ config.endpoints[loc[r].endpoint].target = <<"U", "$1">>
    /\ up[r].target = <<"U", "b">>

\* C13: when the ban guard passes an error to its continuation, the error is
\* logged, the client gets the generic 500 without the error in it, the
\* request gets no correlation id and no later stage is invoked for it.
C13_BanErrorAborts ==
  \A r \in Reqs :
    out[r].ban = "error" =>
      /\ GenericFailure(r)
      /\ res[r].message \notin Errs
      /\ \E i \in 1..Len(log[r]) : log[r][i].kind = "error" /\ log[r][i].detail \in Errs
      /\ req[r].requestId = 0
      /\ res[r].xRequestId = 0
      /\ calls[r].getEndpoint = 0
      /\ calls[r].authenticate = 0
      /\ calls[r].rateLimit = 0
      /\ calls[r].web = 0

C13_Witness ==
  \E r \in Reqs : out[r].ban = "error" /\ pc[r] = "done" /\ res[r].ended = 1 /\ Len(log[r]) = 1

\* C14: req.tokenId is set only for a request whose authentication succeeded,
\* req.endpoint only for a request an endpoint was resolved for, and the stages
\* after a producing stage are invoked only once that stage has run.
C14_FieldsAfterTheirStage ==
  \A r \in Reqs :
    /\ truthy(req[r].tokenId) =>
         /\ out[r].auth = "ok"
         /\ req[r].tokenId = out[r].token
    /\ req[r].endpoint # Undefined =>
         /\ out[r].ban = "allowed"
         /\ Matching(req[r].url) # {}
         /\ req[r].endpoint = FirstMatching(req[r].url).name
    /\ calls[r].authenticate > 0 => calls[r].getEndpoint = 1
    /\ calls[r].rateLimit > 0 => (calls[r].authenticate = 1 /\ truthy(req[r].tokenId))
    /\ calls[r].web > 0 => (calls[r].rateLimit = 1 /\ req[r].endpoint # Undefined)

C14_Witness ==
  \E r \in Reqs : truthy(req[r].tokenId) /\ req[r].endpoint # Undefined /\ calls[r].web = 1

\* the context of a request
Context(r) == <<req[r], loc[r], up[r], res[r].xRequestId>>

\* what a forwarded request is forwarded with is what was produced for it
OwnForwarding ==
  \A r \in Reqs :
    calls[r].web > 0 =>
      /\ up[r].xRequestId = req[r].requestId
      /\ res[r].xRequestId = req[r].requestId
      /\ up[r].target = loc[r].target
      /\ Rewritten(req[r].url, FirstMatching(req[r].url), up[r].target)

\* a step that changes the context of a request is a step of the pipeline of
\* that request and leaves the context of every other request as it is
OwnContextStep ==
  \A r \in Reqs :
    Context(r)' # Context(r) =>
      /\ pc'[r] # pc[r]
      /\ \A q \in Reqs \ {r} : Context(q)' = Context(q) /\ pc'[q] = pc[q]

\* C15: in every interleaving of the requests in flight, the context of a
\* request is written by the steps of that request only, and the X-Request-ID
\* and the target a request is forwarded with are the ones produced for it.
C15_ContextIsolation == []OwnForwarding /\ [][OwnContextStep]_vars

\* two requests interleaved: the second got its id before the first is forwarded
C15_Witness ==
  \E r, q \in Reqs :
    /\ r # q
    /\ calls[r].web > 0
    /\ req[r].requestId < req[q].requestId
    /\ pc[q] \in {"authenticate", "rateLimit"}
    /\ pc[r] = "proxy"

\* C16: a request whose upstream response was logged by the proxyRes handler
\* had its client IP, correlation id, endpoint name and start time on req, and
\* its correlation id mirrored on the client response.
C16_LoggedWithContext ==
  \A r \in Reqs :
    (\E i \in 1..Len(log[r]) : log[r][i].kind = "request") =>
      /\ truthy(req[r].userIP)
      /\ req[r].requestId # 0
      /\ req[r].endpoint # Undefined
      /\ req[r].startTime # 0
      /\ res[r].xRequestId = req[r].requestId

C16_Witness ==
  \E r \in Reqs :
    /\ out[r].up = "response"
    /\ Len(log[r]) = 1
    /\ log[r][1].kind = "request"
    /\ log[r][1].detail = req[r].endpoint

\* C17: every connection the socket timeout destroyed has a failure record
\* in the log.
C17_TimeoutLogged ==
  \A r \in Reqs :
    sock[r] = "destroyed" => \E i \in 1..Len(log[r]) : log[r][i].kind = "timeout"

\* C18: with every collaborator call and upstream call producing an outcome,
\* every accepted request is eventually answered.
C18_EveryRequestAnswered ==
  \A r \in Reqs : (pc[r] # "idle") ~> (res[r].ended > 0)

\* C19: utils.abort is called at most once for a request and never for a
\* request proxy.web was invoked for, and a request gets at most one final
\* response.
C19_OneTerminalResponse ==
  \A r \in Reqs :
    /\ calls[r].abort <= 1
    /\ res[r].ended <= 1
    /\ calls[r].web > 0 => calls[r].abort = 0
    /\ calls[r].abort = 1 =>
         /\ res[r].writer = "gateway"
         /\ res[r].status \in {500, 404}
         /\ res[r].ended = 1

C19_Witness ==
  \E r, q \in Reqs :
    /\ calls[r].abort = 1 /\ res[r].status = 404
    /\ calls[q].web = 1 /\ out[q].up = "response" /\ res[q].ended = 1

====
